---- MODULE Spec2Model ----
(***************************************************************************)
(* Model of notebooks/02_feature_engineering.ipynb: the feature pipeline   *)
(* of march-madness-predictions.  The notebook is a straight-line program  *)
(* of five code cells; each cell is one action and pc names the cell that  *)
(* ran last.                                                               *)
(*                                                                         *)
(*   load (Init)  ->  Aggregator  ->  SeedAnnotator  ->  MatchupJoiner     *)
(*                ->  FeatureBuilder                                       *)
(*                                                                         *)
(* Tables (pandas DataFrames) are sequences of records, one record per     *)
(* row, one field per column.  Numeric cells that pandas holds as float64  *)
(* (and that can therefore be NaN) are exact rationals [n, d] with d > 0,  *)
(* in lowest terms; NaN is [n |-> 0, d |-> 0].  Seed codes are sequences   *)
(* of one-character strings.                                               *)
(*                                                                         *)
(* Spec runs the notebook on every bounded game log, seed table and        *)
(* tournament log over several seasons; SpecSeason on the tables of one    *)
(* season; SpecSeed on one seed entry with an arbitrary code; SpecE2E on   *)
(* the seasons of the end-to-end scenario.                                 *)
(***************************************************************************)
EXTENDS Integers, Sequences, FiniteSets, TLC

(***************************************************************************)
(* Bounds of the explored inputs.                                          *)
(***************************************************************************)
NumTeams    == 2
NumSeasons  == 2
MaxScore    == 2
MaxGames    == 3
MaxSeeds    == 2
MaxMatchups == 1
MaxCodeLen  == 3

VARIABLES
    pc,               \* last cell that ran: "load", "aggregated", "seeded",
                      \* "joined", "done", or "failed" (a cell raised)
    err,              \* the exception that aborted the run, "" if none
    csv_season,       \* rows of ../data/MRegularSeasonCompactResults.csv
    csv_tourney,      \* rows of ../data/MNCAATourneyCompactResults.csv
    csv_seeds,        \* rows of ../data/MNCAATourneySeeds.csv
    season_results,   \* DataFrame season_results
    tourney_results,  \* DataFrame bound to the name tourney_results
    seeds,            \* DataFrame seeds
    team_stats,       \* DataFrame bound to the name team_stats
    model_data        \* DataFrame model_data

vars == << pc, err, csv_season, csv_tourney, csv_seeds, season_results,
           tourney_results, seeds, team_stats, model_data >>

----------------------------------------------------------------------------
(***************************************************************************)
(* float64 cells as exact rationals.                                       *)
(***************************************************************************)
NaN == [n |-> 0, d |-> 0]

IsNaN(x) == x.d = 0

R(i) == [n |-> i, d |-> 1]

Abs(i) == IF i < 0 THEN -i ELSE i

RECURSIVE GCD(_, _)
GCD(a, b) == IF b = 0 THEN a ELSE GCD(b, a % b)

\* n / d for d > 0, in lowest terms
Norm(n, d) ==
    LET g == GCD(Abs(n), d)
    IN  [n |-> IF n < 0 THEN -(Abs(n) \div g) ELSE n \div g, d |-> d \div g]

\* a - b on float64 columns: NaN when either side is NaN
RSub(a, b) ==
    IF IsNaN(a) \/ IsNaN(b) THEN NaN
    ELSE Norm(a.n * b.d - b.n * a.d, a.d * b.d)

\* a / b on float64 columns, for a, b >= 0.  The divisor is a TotalGames
\* cell, which is a count of at least one game for every row the notebook
\* divides; x/0 would be inf or NaN and is given as NaN.
RDiv(a, b) ==
    IF IsNaN(a) \/ IsNaN(b) \/ b.n = 0 THEN NaN
    ELSE Norm(a.n * b.d, a.d * b.n)

RECURSIVE SumSeq(_)
SumSeq(s) == IF s = << >> THEN 0 ELSE Head(s) + SumSeq(Tail(s))

\* Series.mean() of a non-empty group of integer scores
Mean(s) == Norm(SumSeq(s), Len(s))

\* keys of a groupby, in ascending order (groupby sorts its keys)
RECURSIVE SortedSeq(_)
SortedSeq(S) ==
    IF S = {} THEN << >>
    ELSE LET m == CHOOSE x \in S : \A y \in S : x <= y
         IN  << m >> \o SortedSeq(S \ {m})

----------------------------------------------------------------------------
(***************************************************************************)
(* Team Season Aggregator cell.                                            *)
(***************************************************************************)
WinnerIDs(log) == { log[i].WTeamID : i \in 1..Len(log) }

LoserIDs(log) == { log[i].LTeamID : i \in 1..Len(log) }

\* groupby("WTeamID").size() at key t
WinCount(log, t) == Cardinality({ i \in 1..Len(log) : log[i].WTeamID = t })

\* groupby("LTeamID").size() at key t
LossCount(log, t) == Cardinality({ i \in 1..Len(log) : log[i].LTeamID = t })

\* the WScore values of the group WTeamID = t, in row order
RECURSIVE WScoresOf(_, _)
WScoresOf(log, t) ==
    IF log = << >> THEN << >>
    ELSE (IF Head(log).WTeamID = t THEN << Head(log).WScore >> ELSE << >>)
         \o WScoresOf(Tail(log), t)

\* the LScore values of the group LTeamID = t, in row order
RECURSIVE LScoresOf(_, _)
LScoresOf(log, t) ==
    IF log = << >> THEN << >>
    ELSE (IF Head(log).LTeamID = t THEN << Head(log).LScore >> ELSE << >>)
         \o LScoresOf(Tail(log), t)

\* win_counts: one row per team that won at least once
win_counts(log) ==
    LET ids == SortedSeq(WinnerIDs(log))
    IN  [i \in 1..Len(ids) |-> [WTeamID |-> ids[i], Wins |-> WinCount(log, ids[i])]]

\* total_games without the losses: size-by-winner alone
total_games_WinsOnly(log) ==
    LET ids == SortedSeq(WinnerIDs(log) \cup LoserIDs(log))
    IN  [ key  |-> IF WinnerIDs(log) = LoserIDs(log) THEN "WTeamID" ELSE "index",
          rows |-> [i \in 1..Len(ids) |->
                      [id |-> ids[i], TotalGames |-> WinCount(log, ids[i])]] ]

(***************************************************************************)
(* total_games: size-by-winner .add( size-by-loser, fill_value=0 )         *)
(* .reset_index(name="TotalGames").  The two Series are indexed by         *)
(* "WTeamID" and by "LTeamID".  Series.add aligns them only when the       *)
(* indexes differ (Index.equals ignores names); the aligned (outer-joined) *)
(* index takes the common name of the two, which is None for differing     *)
(* names, and reset_index then calls the key column "index".  When the     *)
(* indexes are equal no alignment happens and the left name, "WTeamID",    *)
(* is kept.  key is the name of the key column of the resulting frame.     *)
(***************************************************************************)
total_games(log) ==
    LET ids == SortedSeq(WinnerIDs(log) \cup LoserIDs(log))
    IN  [ key  |-> IF WinnerIDs(log) = LoserIDs(log) THEN "WTeamID" ELSE "index",
          rows |-> [i \in 1..Len(ids) |->
                      [id |-> ids[i],
                       TotalGames |-> WinCount(log, ids[i]) + LossCount(log, ids[i])]] ]

\* the TotalGames cell that the left merge on WTeamID attaches to team t
TotalGamesOf(tg, t) ==
    IF \E i \in 1..Len(tg.rows) : tg.rows[i].id = t
    THEN R(tg.rows[CHOOSE i \in 1..Len(tg.rows) : tg.rows[i].id = t].TotalGames)
    ELSE NaN

\* avg_points_scored at key t: mean of WScore over the games t won
avg_points_scored(log, t) ==
    IF t \in WinnerIDs(log) THEN Mean(WScoresOf(log, t)) ELSE NaN

\* avg_points_allowed at key t: mean of LScore over the rows with LTeamID = t
avg_points_allowed(log, t) ==
    IF t \in LoserIDs(log) THEN Mean(LScoresOf(log, t)) ELSE NaN

\* one row of team_stats as the cell leaves it
StatsRow(log, wc) ==
    LET tot == TotalGamesOf(total_games(log), wc.WTeamID)
        sc  == avg_points_scored(log, wc.WTeamID)
        al  == avg_points_allowed(log, wc.WTeamID)
    IN  [ WTeamID           |-> wc.WTeamID,
          Wins              |-> R(wc.Wins),
          TotalGames        |-> tot,
          WinPercentage     |-> RDiv(R(wc.Wins), tot),
          AvgPointsScored   |-> sc,
          AvgPointsAllowed  |-> al,
          PointDifferential |-> RSub(sc, al) ]

\* team_stats as the cell leaves it: win_counts left-merged with the rest
TeamStatsOf(log) ==
    LET wc == win_counts(log)
    IN  [i \in 1..Len(wc) |-> StatsRow(log, wc[i])]

\* The cell.  The merge of line 77 names right_on="WTeamID": it raises
\* KeyError when total_games has no column of that name.
Aggregator ==
    /\ pc = "load"
    /\ IF total_games(season_results).key = "WTeamID"
       THEN /\ team_stats' = TeamStatsOf(season_results)
            /\ pc' = "aggregated"
            /\ err' = ""
       ELSE /\ team_stats' = team_stats
            /\ pc' = "failed"
            /\ err' = "KeyError"
    /\ UNCHANGED << csv_season, csv_tourney, csv_seeds, season_results,
                    tourney_results, seeds, model_data >>

----------------------------------------------------------------------------
(***************************************************************************)
(* Seed Annotator cell.                                                    *)
(***************************************************************************)
DigitChars == << "0", "1", "2", "3", "4", "5", "6", "7", "8", "9" >>

IsDigit(c) == \E k \in 1..10 : DigitChars[k] = c

DigitVal(c) == (CHOOSE k \in 1..10 : DigitChars[k] = c) - 1

IsSpace(c) == c = " "

RECURSIVE LStrip(_)
LStrip(s) == IF s # << >> /\ IsSpace(Head(s)) THEN LStrip(Tail(s)) ELSE s

RECURSIVE RStrip(_)
RStrip(s) ==
    IF s # << >> /\ IsSpace(s[Len(s)]) THEN RStrip(SubSeq(s, 1, Len(s) - 1)) ELSE s

\* digits of an int literal: digits, with single underscores between digits
DigitsOK(b) ==
    /\ b # << >>
    /\ IsDigit(b[1])
    /\ IsDigit(b[Len(b)])
    /\ \A i \in 1..Len(b) : IsDigit(b[i]) \/ b[i] = "_"
    /\ \A i \in 1..(Len(b) - 1) : ~(b[i] = "_" /\ b[i + 1] = "_")

RECURSIVE DigitsVal(_, _)
DigitsVal(b, acc) ==
    IF b = << >> THEN acc
    ELSE IF Head(b) = "_" THEN DigitsVal(Tail(b), acc)
    ELSE DigitsVal(Tail(b), 10 * acc + DigitVal(Head(b)))

\* Python's int(str): surrounding whitespace is stripped, one sign is
\* accepted, then a decimal literal; anything else raises ValueError.
PyInt(s) ==
    LET t    == RStrip(LStrip(s))
        sgn  == t # << >> /\ (t[1] = "+" \/ t[1] = "-")
        body == IF sgn THEN Tail(t) ELSE t
    IN  IF DigitsOK(body)
        THEN [ok |-> TRUE,
              val |-> IF sgn /\ t[1] = "-" THEN -DigitsVal(body, 0)
                      ELSE DigitsVal(body, 0)]
        ELSE [ok |-> FALSE, val |-> 0]

\* the slice x[1:3]: the characters at offsets 1 and 2 that exist
Slice13(x) == SubSeq(x, 2, IF Len(x) < 3 THEN Len(x) ELSE 3)

\* lambda x: int(x[1:3])
SeedValueOf(x) == PyInt(Slice13(x))

\* the SeedValue cells of the seeds rows with TeamID = t, in row order
RECURSIVE SeedMatches(_, _)
SeedMatches(sd, t) ==
    IF sd = << >> THEN << >>
    ELSE (IF Head(sd).TeamID = t THEN << R(Head(sd).SeedValue) >> ELSE << >>)
         \o SeedMatches(Tail(sd), t)

\* team_stats.merge(seeds[["TeamID","SeedValue"]], left_on="WTeamID",
\* right_on="TeamID", how="left"), TeamID dropped: one output row per
\* matching seeds row, one row with a NaN seed when none matches
RECURSIVE MergeSeeds(_, _)
MergeSeeds(ts, sd) ==
    IF ts = << >> THEN << >>
    ELSE LET m == SeedMatches(sd, Head(ts).WTeamID)
             v == IF m = << >> THEN << NaN >> ELSE m
         IN  [k \in 1..Len(v) |-> Head(ts) @@ [SeedValue |-> v[k]]]
             \o MergeSeeds(Tail(ts), sd)

\* The cell.  A seed code that int() rejects raises ValueError out of apply,
\* before the column is assigned.
SeedAnnotator ==
    /\ pc = "aggregated"
    /\ IF \A i \in 1..Len(seeds) : SeedValueOf(seeds[i].Seed).ok
       THEN LET sd == [i \in 1..Len(seeds) |->
                         seeds[i] @@ [SeedValue |-> SeedValueOf(seeds[i].Seed).val]]
            IN  /\ seeds' = sd
                /\ team_stats' = MergeSeeds(team_stats, sd)
                /\ pc' = "seeded"
                /\ err' = ""
       ELSE /\ UNCHANGED << seeds, team_stats >>
            /\ pc' = "failed"
            /\ err' = "ValueError"
    /\ UNCHANGED << csv_season, csv_tourney, csv_seeds, season_results,
                    tourney_results, model_data >>

----------------------------------------------------------------------------
(***************************************************************************)
(* Matchup Joiner cell.                                                    *)
(***************************************************************************)
\* the team_stats columns, all NaN: the right-hand block of an unmatched row
NoStats ==
    [ Wins |-> NaN, TotalGames |-> NaN, WinPercentage |-> NaN,
      AvgPointsScored |-> NaN, AvgPointsAllowed |-> NaN,
      PointDifferential |-> NaN, SeedValue |-> NaN ]

\* the team_stats rows with WTeamID = t, in row order, without the key
RECURSIVE StatsMatches(_, _)
StatsMatches(ts, t) ==
    IF ts = << >> THEN << >>
    ELSE (IF Head(ts).WTeamID = t
          THEN << [c \in DOMAIN NoStats |-> Head(ts)[c]] >> ELSE << >>)
         \o StatsMatches(Tail(ts), t)

\* right-hand blocks a left merge attaches to key t
Lookup(ts, t) ==
    LET m == StatsMatches(ts, t) IN IF m = << >> THEN << NoStats >> ELSE m

\* one matchup row after the merge on WTeamID and the first rename
WinnerRow(row, st) ==
    row @@ [ Wins |-> st.Wins, TotalGames |-> st.TotalGames,
             W_WinPercentage     |-> st.WinPercentage,
             W_AvgPointsScored   |-> st.AvgPointsScored,
             W_AvgPointsAllowed  |-> st.AvgPointsAllowed,
             W_PointDifferential |-> st.PointDifferential,
             W_SeedValue         |-> st.SeedValue ]

\* tourney_results.merge(team_stats, left_on="WTeamID", right_on="WTeamID",
\* how="left") and the rename to W_
RECURSIVE WinnerJoin(_, _)
WinnerJoin(tr, ts) ==
    IF tr = << >> THEN << >>
    ELSE LET m == Lookup(ts, Head(tr).WTeamID)
         IN  [k \in 1..Len(m) |-> WinnerRow(Head(tr), m[k])]
             \o WinnerJoin(Tail(tr), ts)

\* one row after the merge of LTeamID against WTeamID, the second rename and
\* the drop of WTeamID_y: the columns both frames have (WTeamID, Wins,
\* TotalGames) get the suffixes _x (left) and _y (right)
LoserRow(row, st) ==
    [ c \in (DOMAIN row) \ {"WTeamID", "Wins", "TotalGames"} |-> row[c] ]
    @@ [ WTeamID_x |-> row.WTeamID,
         Wins_x |-> row.Wins, TotalGames_x |-> row.TotalGames,
         Wins_y |-> st.Wins, TotalGames_y |-> st.TotalGames,
         L_WinPercentage     |-> st.WinPercentage,
         L_AvgPointsScored   |-> st.AvgPointsScored,
         L_AvgPointsAllowed  |-> st.AvgPointsAllowed,
         L_PointDifferential |-> st.PointDifferential,
         L_SeedValue         |-> st.SeedValue ]

\* tourney_results.merge(team_stats, left_on="LTeamID", right_on="WTeamID",
\* how="left"), the rename to L_ and the drop
RECURSIVE LoserJoin(_, _)
LoserJoin(tr, ts) ==
    IF tr = << >> THEN << >>
    ELSE LET m == Lookup(ts, Head(tr).LTeamID)
         IN  [k \in 1..Len(m) |-> LoserRow(Head(tr), m[k])]
             \o LoserJoin(Tail(tr), ts)

\* The cell: both merges; the name tourney_results is rebound to the result.
MatchupJoiner ==
    /\ pc = "seeded"
    /\ tourney_results' = LoserJoin(WinnerJoin(tourney_results, team_stats), team_stats)
    /\ pc' = "joined"
    /\ UNCHANGED << err, csv_season, csv_tourney, csv_seeds, season_results,
                    seeds, team_stats, model_data >>

----------------------------------------------------------------------------
(***************************************************************************)
(* Differential Feature Builder cell.                                      *)
(***************************************************************************)
\* the *_Diff columns with the allowed-points difference taken against the
\* loser's AvgPointsScored column
DiffCols_WrongColumn(j) ==
    [ WinPercentage_Diff     |-> RSub(j.W_WinPercentage, j.L_WinPercentage),
      AvgPointsScored_Diff   |-> RSub(j.W_AvgPointsScored, j.L_AvgPointsScored),
      AvgPointsAllowed_Diff  |-> RSub(j.W_AvgPointsAllowed, j.L_AvgPointsScored),
      PointDifferential_Diff |-> RSub(j.W_PointDifferential, j.L_PointDifferential),
      SeedValue_Diff         |-> RSub(j.W_SeedValue, j.L_SeedValue) ]

\* the five *_Diff columns of one joined row
DiffCols(j) ==
    [ WinPercentage_Diff     |-> RSub(j.W_WinPercentage, j.L_WinPercentage),
      AvgPointsScored_Diff   |-> RSub(j.W_AvgPointsScored, j.L_AvgPointsScored),
      AvgPointsAllowed_Diff  |-> RSub(j.W_AvgPointsAllowed, j.L_AvgPointsAllowed),
      PointDifferential_Diff |-> RSub(j.W_PointDifferential, j.L_PointDifferential),
      SeedValue_Diff         |-> RSub(j.W_SeedValue, j.L_SeedValue) ]

\* model_data: the five columns copied out, plus Result = 1
FeatureRows(joined) ==
    [i \in 1..Len(joined) |-> DiffCols(joined[i]) @@ [Result |-> 1]]

\* The cell: the *_Diff columns are added to tourney_results itself.
FeatureBuilder ==
    /\ pc = "joined"
    /\ tourney_results' =
          [i \in 1..Len(tourney_results) |->
              tourney_results[i] @@ DiffCols(tourney_results[i])]
    /\ model_data' = FeatureRows(tourney_results)
    /\ pc' = "done"
    /\ UNCHANGED << err, csv_season, csv_tourney, csv_seeds, season_results,
                    seeds, team_stats >>

Next == Aggregator \/ SeedAnnotator \/ MatchupJoiner \/ FeatureBuilder

----------------------------------------------------------------------------
(***************************************************************************)
(* The load cell: the three tables as read_csv returns them.               *)
(***************************************************************************)
Teams == 1..NumTeams

Seasons == 1..NumSeasons

Scores == 0..MaxScore

\* GameRecord rows: the winner is not the loser and outscored it
Games ==
    { g \in [ Season : Seasons, WTeamID : Teams, WScore : Scores,
              LTeamID : Teams, LScore : Scores ] :
        g.WTeamID # g.LTeamID /\ g.WScore > g.LScore }

\* tournament rows; their scores are read by no cell
Matchups == { g \in Games : g.WScore = 1 /\ g.LScore = 0 }

\* well-formed seed codes
SeedCodes == { << "W", "0", "1" >>, << "X", "0", "2" >> }

SeedEntries == [ Season : Seasons, TeamID : Teams, Seed : SeedCodes ]

SeqsUpTo(S, n) == UNION { [1..k -> S] : k \in 0..n }

\* position of a game in the order of the file: by season, then by the
\* remaining columns.  The cells read the log through groupby(...).size()
\* and groupby(...).mean() only, which do not depend on the order of the
\* rows, so one order per collection of games is enumerated.
GameKey(g) ==
    (((g.Season * (NumTeams + 1) + g.WTeamID) * (NumTeams + 1) + g.LTeamID)
        * (MaxScore + 1) + g.WScore) * (MaxScore + 1) + g.LScore

\* the game log lists its rows in file order
OrderedLog(log) ==
    \A i \in 1..(Len(log) - 1) : GameKey(log[i]) <= GameKey(log[i + 1])

\* the seed table lists one entry per team and season, by season; the same
\* team may have entries in several seasons
OrderedSeeds(sd) ==
    \A i \in 1..(Len(sd) - 1) :
        sd[i].Season * (NumTeams + 1) + sd[i].TeamID
            < sd[i + 1].Season * (NumTeams + 1) + sd[i + 1].TeamID

GameLogs == { l \in SeqsUpTo(Games, MaxGames) : OrderedLog(l) }

TourneyLogs == SeqsUpTo(Matchups, MaxMatchups)

SeedTables == { sd \in SeqsUpTo(SeedEntries, MaxSeeds) : OrderedSeeds(sd) }

Load(log, tr, sd) ==
    /\ csv_season = log
    /\ csv_tourney = tr
    /\ csv_seeds = sd
    /\ season_results = log
    /\ tourney_results = tr
    /\ seeds = sd
    /\ team_stats = << >>
    /\ model_data = << >>
    /\ pc = "load"
    /\ err = ""

Init == \E log \in GameLogs, tr \in TourneyLogs, sd \in SeedTables : Load(log, tr, sd)

Spec == Init /\ [][Next]_vars

----------------------------------------------------------------------------
(***************************************************************************)
(* One season: the three tables hold rows of season 1 only, and every game *)
(* of the log ends MaxScore to 0.                                          *)
(***************************************************************************)
SeasonGames == { g \in Games : g.Season = 1 /\ g.WScore = MaxScore /\ g.LScore = 0 }

SeasonLogs == { l \in SeqsUpTo(SeasonGames, MaxGames) : OrderedLog(l) }

SeasonTourneys == SeqsUpTo({ m \in Matchups : m.Season = 1 }, MaxMatchups)

SeasonSeeds ==
    { sd \in SeqsUpTo({ e \in SeedEntries : e.Season = 1 }, MaxSeeds) : OrderedSeeds(sd) }

InitSeason ==
    \E log \in SeasonLogs, tr \in SeasonTourneys, sd \in SeasonSeeds : Load(log, tr, sd)

SpecSeason == InitSeason /\ [][Next]_vars

----------------------------------------------------------------------------
(***************************************************************************)
(* Properties.                                                             *)
(***************************************************************************)
\* the rows of a table that belong to season s, in row order
RECURSIVE OfSeason(_, _)
OfSeason(tbl, s) ==
    IF tbl = << >> THEN << >>
    ELSE (IF Head(tbl).Season = s THEN << Head(tbl) >> ELSE << >>)
         \o OfSeason(Tail(tbl), s)

TeamsIn(log) == WinnerIDs(log) \cup LoserIDs(log)

RowsOfTeam(ts, t) == { i \in 1..Len(ts) : ts[i].WTeamID = t }

Joined == pc \in {"joined", "done"}

\* the Aggregator cell has been run: it finished or it raised
AggregatorRan == pc = "aggregated" \/ (pc = "failed" /\ err = "KeyError")

\* C1: the table after the winner-side join, the table after the loser-side
\* join and model_data each have exactly as many rows as the tournament
\* game log has games.
C1_RowCount ==
    /\ Joined =>
          /\ Len(WinnerJoin(csv_tourney, team_stats)) = Len(csv_tourney)
          /\ Len(tourney_results) = Len(csv_tourney)
    /\ pc = "done" => Len(model_data) = Len(csv_tourney)

\* the value the W_ or L_ column col has for team t when it is computed from
\* the games and the seed entry of season s alone
SeasonValue(s, t, col) ==
    LET log == OfSeason(csv_season, s)
        sd  == OfSeason(seeds, s)
    IN  IF col = "SeedValue"
        THEN { R(sd[i].SeedValue) : i \in { k \in 1..Len(sd) : sd[k].TeamID = t } }
             \cup (IF \E k \in 1..Len(sd) : sd[k].TeamID = t THEN {} ELSE { NaN })
        ELSE IF col = "WinPercentage"
        THEN { IF WinCount(log, t) + LossCount(log, t) = 0 THEN NaN
               ELSE Norm(WinCount(log, t), WinCount(log, t) + LossCount(log, t)) }
        ELSE IF col = "AvgPointsScored" THEN { avg_points_scored(log, t) }
        ELSE IF col = "AvgPointsAllowed" THEN { avg_points_allowed(log, t) }
        ELSE { RSub(avg_points_scored(log, t), avg_points_allowed(log, t)) }

\* C2: every W_ and L_ value of a joined matchup of season S is the value
\* computed from the games of season S and the seed entry of season S only.
C2_NoSeasonLeak ==
    Joined =>
        \A i \in 1..Len(tourney_results) :
            LET j == tourney_results[i]
            IN  /\ j.W_WinPercentage \in SeasonValue(j.Season, j.WTeamID_x, "WinPercentage")
                /\ j.W_AvgPointsScored \in SeasonValue(j.Season, j.WTeamID_x, "AvgPointsScored")
                /\ j.W_AvgPointsAllowed \in SeasonValue(j.Season, j.WTeamID_x, "AvgPointsAllowed")
                /\ j.W_PointDifferential \in SeasonValue(j.Season, j.WTeamID_x, "PointDifferential")
                /\ j.W_SeedValue \in SeasonValue(j.Season, j.WTeamID_x, "SeedValue")
                /\ j.L_WinPercentage \in SeasonValue(j.Season, j.LTeamID, "WinPercentage")
                /\ j.L_AvgPointsScored \in SeasonValue(j.Season, j.LTeamID, "AvgPointsScored")
                /\ j.L_AvgPointsAllowed \in SeasonValue(j.Season, j.LTeamID, "AvgPointsAllowed")
                /\ j.L_PointDifferential \in SeasonValue(j.Season, j.LTeamID, "PointDifferential")
                /\ j.L_SeedValue \in SeasonValue(j.Season, j.LTeamID, "SeedValue")

\* C3: once the Aggregator has run, every team that is a winner or a loser
\* of some game has exactly one stats row; a team that only lost has a row
\* with Wins = 0 and TotalGames = its number of games as loser.
C3_OneRowPerTeam ==
    AggregatorRan =>
        \A t \in TeamsIn(csv_season) :
            /\ Cardinality(RowsOfTeam(team_stats, t)) = 1
            /\ WinCount(csv_season, t) = 0 =>
                  \A i \in RowsOfTeam(team_stats, t) :
                      /\ team_stats[i].Wins = R(0)
                      /\ team_stats[i].TotalGames = R(LossCount(csv_season, t))

\* games of season s that t won, and that t lost
GamesWon(s, t) ==
    Cardinality({ i \in 1..Len(csv_season) :
                    csv_season[i].Season = s /\ csv_season[i].WTeamID = t })

GamesLost(s, t) ==
    Cardinality({ i \in 1..Len(csv_season) :
                    csv_season[i].Season = s /\ csv_season[i].LTeamID = t })

\* the game log is the log of season s
LogOfSeason(s) == \A i \in 1..Len(csv_season) : csv_season[i].Season = s

\* C4: in the stats table of a season, every row of a team T has
\* TotalGames = (games of the season T won) + (games of the season T lost)
\* and Wins = (games of the season T won), so 0 <= Wins <= TotalGames and
\* TotalGames > 0.
C4_PlayedIsWonPlusLost ==
    \A s \in Seasons :
        LogOfSeason(s) =>
            \A i \in 1..Len(team_stats) :
                LET r == team_stats[i]
                IN  /\ r.TotalGames = R(GamesWon(s, r.WTeamID) + GamesLost(s, r.WTeamID))
                    /\ r.Wins = R(GamesWon(s, r.WTeamID))
                    /\ r.Wins.d = 1 /\ r.TotalGames.d = 1
                    /\ 0 <= r.Wins.n /\ r.Wins.n <= r.TotalGames.n
                    /\ r.TotalGames.n > 0

\* C4 witness: a season's table with a team that won twice and lost once
C4_Witness ==
    /\ pc = "aggregated"
    /\ \E s \in Seasons : LogOfSeason(s)
    /\ \E i \in 1..Len(team_stats) :
          team_stats[i].Wins = R(2) /\ team_stats[i].TotalGames = R(3)

\* the scores of the winners of the games t lost, in row order
RECURSIVE OpponentScoresInLosses(_, _)
OpponentScoresInLosses(log, t) ==
    IF log = << >> THEN << >>
    ELSE (IF Head(log).LTeamID = t THEN << Head(log).WScore >> ELSE << >>)
         \o OpponentScoresInLosses(Tail(log), t)

\* C5: in every stats row, the average points allowed of a team that lost
\* at least one game is the mean of the winners' scores over the games it
\* lost; a team that never lost has no value.
C5_AllowedIsOpponentScore ==
    \A i \in 1..Len(team_stats) :
        LET t == team_stats[i].WTeamID
        IN  IF LossCount(csv_season, t) > 0
            THEN team_stats[i].AvgPointsAllowed
                    = Mean(OpponentScoresInLosses(csv_season, t))
            ELSE IsNaN(team_stats[i].AvgPointsAllowed)

\* the Seed Annotator cell has been run: it finished or int() raised
AnnotatorRan == pc \in {"seeded", "joined", "done"} \/ (pc = "failed" /\ err = "ValueError")

\* the two characters after the first exist and are decimal digits
TwoDigits(x) == Len(x) >= 3 /\ IsDigit(x[2]) /\ IsDigit(x[3])

\* C6: the seed rank of a code is the integer value of the two characters
\* after the first; whenever those two characters are not both decimal
\* digits the cell fails with an error and yields no rank.
C6_SeedParse ==
    AnnotatorRan =>
        IF \A i \in 1..Len(csv_seeds) : TwoDigits(csv_seeds[i].Seed)
        THEN /\ pc # "failed"
             /\ \A i \in 1..Len(seeds) :
                   seeds[i].SeedValue
                      = 10 * DigitVal(seeds[i].Seed[2]) + DigitVal(seeds[i].Seed[3])
        ELSE pc = "failed" /\ seeds = csv_seeds

\* the run has ended: the last cell finished or some cell raised
Ended == pc \in {"done", "failed"}

\* the five paired attributes
Attrs == { "WinPercentage", "AvgPointsScored", "AvgPointsAllowed",
           "PointDifferential", "SeedValue" }

\* the joined row j and feature row f agree with the stats blocks w and l
Propagates(j, f, w, l) ==
    /\ f.Result = 1
    /\ \A a \in Attrs :
          /\ j["W_" \o a] = w[a]
          /\ j["L_" \o a] = l[a]
          /\ f[a \o "_Diff"] = (IF IsNaN(w[a]) \/ IsNaN(l[a]) THEN NaN ELSE RSub(w[a], l[a]))

\* the matchup m is the origin of the joined row j
RowOf(m, j) ==
    /\ j.Season = m.Season /\ j.WTeamID_x = m.WTeamID /\ j.LTeamID = m.LTeamID
    /\ j.WScore = m.WScore /\ j.LScore = m.LScore

\* what the Aggregator's contract gives for team t: no row for a team
\* without games, else the season's figures, of which the average points
\* scored is missing for a team that never won and the average points
\* allowed and the point differential are missing for a team that never lost
MissingAsClaimed(st, t) ==
    /\ (t \notin TeamsIn(csv_season)) => \A a \in Attrs \ {"SeedValue"} : IsNaN(st[a])
    /\ (t \in WinnerIDs(csv_season) /\ t \notin LoserIDs(csv_season)) =>
          /\ ~IsNaN(st.WinPercentage) /\ ~IsNaN(st.AvgPointsScored)
          /\ IsNaN(st.AvgPointsAllowed) /\ IsNaN(st.PointDifferential)
    /\ (\A i \in 1..Len(csv_seeds) : csv_seeds[i].TeamID # t) => IsNaN(st.SeedValue)

\* C7: when the run has ended, every matchup has a feature row with
\* Result = 1 in which a difference is missing exactly when the winner's or
\* the loser's value is missing (team without a stats row, team that never
\* lost, team without a seed entry) and is the winner's value minus the
\* loser's value otherwise.
C7_MissingPropagates ==
    Ended =>
        \A i \in 1..Len(csv_tourney) :
            \E k \in 1..Len(model_data) :
                /\ RowOf(csv_tourney[i], tourney_results[k])
                /\ \E w \in { NoStats } \cup { [c \in DOMAIN NoStats |-> team_stats[n][c]] : n \in 1..Len(team_stats) },
                      l \in { NoStats } \cup { [c \in DOMAIN NoStats |-> team_stats[n][c]] : n \in 1..Len(team_stats) } :
                      /\ Propagates(tourney_results[k], model_data[k], w, l)
                      /\ MissingAsClaimed(w, csv_tourney[i].WTeamID)
                      /\ MissingAsClaimed(l, csv_tourney[i].LTeamID)

\* the matchup with the winner and loser team IDs swapped
Swap(m) == [m EXCEPT !.WTeamID = m.LTeamID, !.LTeamID = m.WTeamID]

Neg(x) == IF IsNaN(x) THEN NaN ELSE [n |-> -x.n, d |-> x.d]

\* the five differences of a feature row, and their negations
Diffs(f) == [a \in Attrs |-> f[a \o "_Diff"]]

NegDiffs(f) == [a \in Attrs |-> Neg(f[a \o "_Diff"])]

Count(sq, r) == Cardinality({ k \in 1..Len(sq) : sq[k] = r })

\* the same rows, whatever their order
SameRows(a, b) ==
    /\ Len(a) = Len(b)
    /\ \A k \in 1..Len(a) : Count(a, a[k]) = Count(b, a[k])

\* the differences of the feature rows that come from matchup m
RECURSIVE DiffsOf(_, _, _)
DiffsOf(m, joined, feats) ==
    IF joined = << >> THEN << >>
    ELSE (IF RowOf(m, Head(joined)) THEN << Diffs(Head(feats)) >> ELSE << >>)
         \o DiffsOf(m, Tail(joined), Tail(feats))

\* the negated differences the Joiner and the Feature Builder give for n
\* copies of matchup m with its team IDs swapped
SwappedRun(m, n) ==
    LET fs == FeatureRows(LoserJoin(WinnerJoin([k \in 1..n |-> Swap(m)], team_stats),
                                    team_stats))
    IN  [k \in 1..Len(fs) |-> NegDiffs(fs[k])]

C10_InputsUntouched ==
    pc = "done" =>
        /\ season_results = csv_season
        /\ seeds = csv_seeds
        /\ tourney_results = csv_tourney
        /\ team_stats = TeamStatsOf(csv_season)

----------------------------------------------------------------------------
(***************************************************************************)
(* Seed codes: the run on one season of two games, one matchup, and one    *)
(* seed entry whose code is any string over SeedAlphabet.                  *)
(***************************************************************************)
SeedAlphabet == { "W", "A", "0", "1", "6", " ", "+", "-", "_" }

AnyCodes == SeqsUpTo(SeedAlphabet, MaxCodeLen)

InitSeed ==
    \E code \in AnyCodes :
        Load(<< [Season |-> 1, WTeamID |-> 1, WScore |-> 1, LTeamID |-> 2, LScore |-> 0],
                [Season |-> 1, WTeamID |-> 2, WScore |-> 1, LTeamID |-> 1, LScore |-> 0] >>,
             << [Season |-> 1, WTeamID |-> 1, WScore |-> 1, LTeamID |-> 2, LScore |-> 0] >>,
             << [Season |-> 1, TeamID |-> 1, Seed |-> code] >>)

SpecSeed == InitSeed /\ [][Next]_vars

----------------------------------------------------------------------------
(***************************************************************************)
(* End-to-end scenario: team 1 (A) wins with 70, 80 and 90 and loses once  *)
(* with 60; team 2 (B) wins once with 65 and loses with 70, 75 and 80.     *)
(* No game of A against B can carry A's 70, so every such season has other *)
(* teams; teams 3 and 4 are the opponents.                                 *)
(***************************************************************************)
G(w, ws, l, ls) == [Season |-> 1, WTeamID |-> w, WScore |-> ws, LTeamID |-> l, LScore |-> ls]

\* the games a scenario season is made of
Cand ==
    << G(1, 70, 3, 50), G(1, 80, 3, 50), G(1, 90, 3, 50),
       G(1, 80, 2, 70), G(1, 80, 2, 75),
       G(1, 90, 2, 70), G(1, 90, 2, 75), G(1, 90, 2, 80),
       G(2, 65, 1, 60), G(3, 85, 1, 60), G(2, 65, 3, 50),
       G(3, 85, 2, 70), G(3, 85, 2, 75), G(3, 85, 2, 80),
       G(4, 95, 2, 80) >>

IsPerm(sq, S) == Len(sq) = Cardinality(S) /\ { sq[k] : k \in 1..Len(sq) } = S

\* the season gives teams 1 and 2 the records of the scenario
Scenario(log) ==
    /\ IsPerm(WScoresOf(log, 1), {70, 80, 90})
    /\ LScoresOf(log, 1) = << 60 >>
    /\ WScoresOf(log, 2) = << 65 >>
    /\ IsPerm(LScoresOf(log, 2), {70, 75, 80})

ScenarioLogs ==
    { log \in { LET ix == SortedSeq(S) IN [k \in 1..Len(ix) |-> Cand[ix[k]]] :
                   S \in SUBSET (1..Len(Cand)) } : Scenario(log) }

\* seeds "W02" for team 1 and "W07" for team 2, in either order, with or
\* without a seed entry for team 3
ScenarioSeeds ==
    LET a == [Season |-> 1, TeamID |-> 1, Seed |-> << "W", "0", "2" >>]
        b == [Season |-> 1, TeamID |-> 2, Seed |-> << "W", "0", "7" >>]
        c == [Season |-> 1, TeamID |-> 3, Seed |-> << "X", "0", "3" >>]
    IN  { << a, b >>, << b, a >>, << a, b, c >>, << c, a, b >>, << b, c, a >> }

InitE2E ==
    \E log \in ScenarioLogs, sd \in ScenarioSeeds :
        Load(log, << G(1, 88, 2, 75) >>, sd)

SpecE2E == InitE2E /\ [][Next]_vars

\* the feature row of the scenario
ScenarioRow ==
    [ WinPercentage_Diff     |-> Norm(1, 2),
      AvgPointsScored_Diff   |-> R(15),
      AvgPointsAllowed_Diff  |-> R(-15),
      PointDifferential_Diff |-> R(30),
      SeedValue_Diff         |-> R(-5),
      Result                 |-> 1 ]

\* C9: when the run on a season of the scenario has ended, model_data is
\* exactly one feature row: 0.5, 15, -15, 30, -5 and Result = 1.
C9_EndToEnd == Ended => model_data = << ScenarioRow >>

====
